---- MODULE Spec2Model ----
(***************************************************************************)
(* KryptonAnalyzer: pad-by-pad gain calibration from Krypton decay spectra. *)
(* The model follows main() of KryptonAnalyzer.cc: histogram creation, the *)
(* accumulation pass over the input trees, the peak-location pass over the  *)
(* pad histograms and the gain pass that writes the gain table (XML) and   *)
(* the result tree.                                                        *)
(*                                                                         *)
(* Doubles are modelled as exact rationals extended with NaN, +Inf and     *)
(* -Inf (rounding and signed zeros are left out). The gain table is the    *)
(* sequence of items handed to gainsFileStream, the result tree is the     *)
(* sequence of rows filled into fResultTree.                               *)
(***************************************************************************)
EXTENDS Integers, Sequences, FiniteSets, Bags, TLC

(***************************************************************************)
(* Double arithmetic.                                                      *)
(***************************************************************************)
RECURSIVE GCD(_, _)
GCD(a, b) == IF b = 0 THEN a ELSE GCD(b, a % b)

Abs(x) == IF x < 0 THEN -x ELSE x

\* A finite double n/d in lowest terms with a positive denominator.
Fin(n, d) ==
  LET s == IF d < 0 THEN -1 ELSE 1
      g == GCD(Abs(n), Abs(d))
  IN  [k |-> "fin", n |-> (s * n) \div g, d |-> (s * d) \div g]

NaN == [k |-> "nan", n |-> 0, d |-> 1]
PInf == [k |-> "inf", n |-> 1, d |-> 1]
NInf == [k |-> "inf", n |-> -1, d |-> 1]
Zero == Fin(0, 1)
Num(i) == Fin(i, 1)

isnan(x) == x.k = "nan"
isinf(x) == x.k = "inf"
Sign(x) == IF x.n > 0 THEN 1 ELSE IF x.n < 0 THEN -1 ELSE 0
Inf(s) == IF s > 0 THEN PInf ELSE NInf

\* a * b on doubles.
Mul(a, b) ==
  IF isnan(a) \/ isnan(b) THEN NaN
  ELSE IF isinf(a) \/ isinf(b)
       THEN IF Sign(a) * Sign(b) = 0 THEN NaN ELSE Inf(Sign(a) * Sign(b))
       ELSE Fin(a.n * b.n, a.d * b.d)

\* a / b on doubles: x/0 is +-Inf, 0/0 is NaN.
Div(a, b) ==
  IF isnan(a) \/ isnan(b) THEN NaN
  ELSE IF isinf(a)
       THEN IF isinf(b) THEN NaN
            ELSE Inf(Sign(a) * (IF Sign(b) < 0 THEN -1 ELSE 1))
       ELSE IF isinf(b) THEN Zero
            ELSE IF b.n = 0
                 THEN IF a.n = 0 THEN NaN ELSE Inf(Sign(a))
                 ELSE Fin(a.n * b.d, a.d * b.n)

\* a + b on doubles.
Add(a, b) ==
  IF isnan(a) \/ isnan(b) THEN NaN
  ELSE IF isinf(a)
       THEN IF isinf(b) /\ Sign(a) # Sign(b) THEN NaN ELSE a
       ELSE IF isinf(b) THEN b
            ELSE Fin(a.n * b.d + b.n * a.d, a.d * b.d)

\* a < b on doubles: false as soon as one side is NaN.
Lt(a, b) ==
  IF isnan(a) \/ isnan(b) THEN FALSE
  ELSE IF isinf(a) THEN Sign(a) < 0 /\ ~(isinf(b) /\ Sign(b) < 0)
       ELSE IF isinf(b) THEN Sign(b) > 0
            ELSE a.n * b.d < b.n * a.d

\* a > b on doubles.
Gt(a, b) == Lt(b, a)

(***************************************************************************)
(* The detector geometry (det::Detector, an input of the run): chambers,   *)
(* sectors and padrows in the provider's enumeration order, pads 1..NPads. *)
(***************************************************************************)
eVTPC1 == 1

Chambers == <<2, 1>>

Sectors(t) == IF t = 2 THEN <<1, 2>> ELSE <<1>>

Padrows(t, s) == IF t = 2 /\ s = 1 THEN <<1, 2>> ELSE <<1>>

GetNPads(t, s, r) == IF t = 2 /\ s = 1 /\ r = 1 THEN 2 ELSE 1

\* The gain of the previous calibration (read when updating only).
GetPadGain(t, s, r, p) ==
  IF <<t, s, r>> = <<2, 1, 1>> THEN (IF p = 1 THEN Num(2) ELSE Num(-1))
  ELSE Num(1)

Range(f) == {f[i] : i \in DOMAIN f}

SectorKeys == {<<t, s>> : t \in Range(Chambers), s \in {1, 2}} \cap
              {k \in Range(Chambers) \X {1, 2} : k[2] \in Range(Sectors(k[1]))}

PadsOfSector(t, s) ==
  UNION {{<<t, s, r, p>> : p \in 1..GetNPads(t, s, r)} : r \in Range(Padrows(t, s))}

GeometryPads == UNION {PadsOfSector(k[1], k[2]) : k \in SectorKeys}

(***************************************************************************)
(* Configuration (ParseConfigFile fills the globals of KryptonAnalyzer.h). *)
(* The cut and histogram parameters are fixed; the run options drawn in    *)
(* Init are the update flag, the fit function (any string of the config    *)
(* file), the minimum of histogram entries, the number of histogram bins,  *)
(* the acceptable-gain bounds and the TPC list.                            *)
(***************************************************************************)
fHistogramPadding == 2
fMinADCPeakSearch == 100
fMinADCPeakSearchVTPC1Upstream == 50
fMinPads == 1
fMaxPads == 2
fMinTimeSlices == 1
fMaxTimeSlices == 2
fMinTimeSliceNumber == 1
fChargeCut == 100
fMaxADCCut == 2

GainBounds == {<<Fin(2, 3), Num(2)>>, <<Num(-2), Num(2)>>}

Configs ==
  [updateGains : BOOLEAN,
   fFitFunction : {"Gaussian", "Fermi", "Landau"},
   fMinHistogramEntries : {1, 2},
   fHistogramBins : {4, 8},
   fMinAcceptableGain : {b[1] : b \in GainBounds},
   fMaxAcceptableGain : {b[2] : b \in GainBounds},
   fTPCIdList : {{2}, {1}}]

(***************************************************************************)
(* TH1D: bins 0 (underflow), 1..nbins, nbins+1 (overflow) over [0, xmax).  *)
(***************************************************************************)
NewTH1D(nbins, xmax) ==
  [nbins |-> nbins, xmax |-> xmax,
   bins |-> [b \in 0..(nbins + 1) |-> 0], entries |-> 0]

\* The null TH1D* that operator[] value-initialises for a missing key.
NullTH1D == [nbins |-> 0, xmax |-> 0, bins |-> <<>>, entries |-> 0]

FindBin(h, x) ==
  IF x.n < 0 THEN 0
  ELSE IF x.n >= h.xmax * x.d THEN h.nbins + 1
       ELSE 1 + ((h.nbins * x.n) \div (h.xmax * x.d))

FillFirstOnly(h, x) ==
  IF h.entries = 0
  THEN [h EXCEPT !.bins[FindBin(h, x)] = @ + 1, !.entries = @ + 1]
  ELSE h
Fill(h, x) ==
  [h EXCEPT !.bins[FindBin(h, x)] = @ + 1, !.entries = @ + 1]

MinADCPeakSearchOf(tpcId, sectorId) ==
  IF tpcId = eVTPC1 /\ (sectorId = 1 \/ sectorId = 4)
  THEN fMinADCPeakSearchVTPC1Upstream ELSE fMinADCPeakSearch

histogramMax(tpcId, sectorId) == MinADCPeakSearchOf(tpcId, sectorId) * fHistogramPadding

(***************************************************************************)
(* Bounds of the model.                                                    *)
(***************************************************************************)
MaxEntries == 2

(***************************************************************************)
(* State.                                                                  *)
(***************************************************************************)
VARIABLES
  cfg,                      \* updateGains and the parsed configuration
  pc,                       \* position of main()
  fSpectraHistograms,       \* pad key -> TH1D (the per-pad spectrum)
  sectorSpectraHistograms,  \* sector key -> (no-cuts TH1D, all-cuts TH1D)
  tree,                     \* (tpcId, sectorId) of the open TTree, or <<>>
  ev,                       \* the branch variables fCharge .. fPad
  nEntries,                 \* entries read so far
  treeEntry,                \* loop index of the entry loop of the open tree
  peaksDone,                \* pad keys the peak pass has visited
  spectrumADCs,             \* pad key -> located peak position
  totalAccumulators,        \* sector key -> running (sum, n) of the peaks
  chamberIt, sectorIt, padrowIt, padId,   \* loop positions of the gain pass
  sectorADC, padADC, gain,  \* locals of the gain pass
  gainsFile,                \* the items streamed to the gain table
  fResultTree,              \* the rows filled into the result tree
  exitCode,
  delivered,                \* bag of the (tree, entry) pairs read so far
  maxBin, chargePeak, chargePeakValue,    \* locals of the peak search
  gausFit,                  \* range of the TF1 gausFit
  file,                     \* lines of the configuration file
  filePos,                  \* index of the next line the stream delivers
  line, lineString,         \* locals of ParseConfigFile
  tpcName,
  parsePc                   \* position of ParseConfigFile

accVars == <<fSpectraHistograms, sectorSpectraHistograms, tree, ev, nEntries, treeEntry>>
peakVars == <<peaksDone, spectrumADCs, totalAccumulators>>
posVars == <<chamberIt, sectorIt, padrowIt, padId>>
gainVars == <<sectorADC, padADC, gain, gainsFile, fResultTree>>

fitVars == <<maxBin, chargePeak, chargePeakValue, gausFit>>
parseVars == <<file, filePos, line, lineString, tpcName, parsePc>>

vars == <<cfg, pc, exitCode, accVars, peakVars, posVars, gainVars, delivered,
          fitVars, parseVars>>

fMinHistogramEntries == cfg.fMinHistogramEntries
fHistogramBins == cfg.fHistogramBins

\* ParseConfigFile has returned: its stream and its locals are gone.
ParserReturned ==
  /\ file = [lines |-> <<>>, eol |-> TRUE] /\ filePos = 1
  /\ line = <<>> /\ lineString = <<>> /\ tpcName = <<>>
  /\ parsePc = "returned"

\* The peak pass has not run: its locals hold nothing.
NoFitYet ==
  /\ maxBin = 0 /\ chargePeak = Zero /\ chargePeakValue = 0
  /\ gausFit = [xmin |-> Zero, xmax |-> Zero]

NoEntry ==
  [charge |-> Zero, maxADC |-> 0, timeSlice |-> 0, nPads |-> 0,
   nTimeSlices |-> 0, padrow |-> 0, pad |-> 0]

Init ==
  /\ cfg \in {c \in Configs :
                /\ <<c.fMinAcceptableGain, c.fMaxAcceptableGain>> \in GainBounds
                /\ c.fFitFunction \in {"Gaussian", "Fermi"}
                /\ c.fMinHistogramEntries = 1
                /\ c.fHistogramBins = 4}
  /\ ParserReturned
  /\ delivered = EmptyBag
  /\ NoFitYet
  /\ pc = "create"
  /\ fSpectraHistograms = <<>>
  /\ sectorSpectraHistograms = <<>>
  /\ tree = <<>>
  /\ ev = NoEntry
  /\ nEntries = 0
  /\ treeEntry = 0
  /\ peaksDone = {}
  /\ spectrumADCs = <<>>
  /\ totalAccumulators = <<>>
  /\ chamberIt = 0 /\ sectorIt = 0 /\ padrowIt = 0 /\ padId = 0
  /\ sectorADC = Zero /\ padADC = Zero /\ gain = Zero
  /\ gainsFile = <<>>
  /\ fResultTree = <<>>
  /\ exitCode = 0

(***************************************************************************)
(* Histogram creation: one TH1D per pad of every listed TPC.               *)
(***************************************************************************)
CreatedPads == {k \in GeometryPads : k[1] \in cfg.fTPCIdList}

CreateHistograms ==
  /\ pc = "create"
  /\ fSpectraHistograms' =
       [k \in CreatedPads |-> NewTH1D(fHistogramBins, histogramMax(k[1], k[2]))]
  /\ pc' = "files"
  /\ UNCHANGED <<cfg, parseVars, delivered, fitVars, sectorSpectraHistograms, tree, ev, nEntries, treeEntry, exitCode, peakVars, posVars, gainVars>>

(***************************************************************************)
(* Accumulation pass.                                                      *)
(***************************************************************************)
\* A non-empty TTree of a listed TPC is opened; the sector QA spectra are
\* created on the first tree of the sector. (An empty tree, or the tree of
\* a TPC that is not listed, is passed over and changes nothing.)
OpenTree(k) ==
  /\ pc = "files"
  /\ nEntries < MaxEntries
  /\ k[1] \in cfg.fTPCIdList
  /\ tree' = k
  /\ sectorSpectraHistograms' =
       IF k \in DOMAIN sectorSpectraHistograms THEN sectorSpectraHistograms
       ELSE [j \in DOMAIN sectorSpectraHistograms \cup {k} |->
               IF j = k
               THEN [first |-> NewTH1D(2 * fHistogramBins, histogramMax(k[1], k[2])),
                     second |-> NewTH1D(2 * fHistogramBins, histogramMax(k[1], k[2]))]
               ELSE sectorSpectraHistograms[j]]
  /\ treeEntry' = 0
  /\ pc' = "tree"
  /\ UNCHANGED <<cfg, parseVars, delivered, fitVars, fSpectraHistograms, ev, nEntries, exitCode, peakVars, posVars, gainVars>>

\* tree->GetEntry(i): the branch variables take the values of entry i.
GetEntry(e) ==
  /\ pc = "tree"
  /\ nEntries < MaxEntries
  /\ ev' = e
  /\ nEntries' = nEntries + 1
  /\ delivered' = delivered (+) SetToBag({<<tree, e>>})
  /\ pc' = "entry"
  /\ UNCHANGED <<cfg, parseVars, fitVars, fSpectraHistograms, sectorSpectraHistograms, tree,
                 treeEntry, exitCode, peakVars, posVars, gainVars>>

\* The cuts of the entry loop, in the order of their `continue`s.
RejectedAtMinPads(e) ==
  \/ e.charge = Zero
  \/ e.nPads <= fMinPads
  \/ e.nPads > fMaxPads
  \/ e.nTimeSlices < fMinTimeSlices
  \/ e.nTimeSlices > fMaxTimeSlices
  \/ e.timeSlice < fMinTimeSliceNumber
  \/ (Lt(e.charge, Num(fChargeCut)) /\ e.maxADC < fMaxADCCut)
RejectedOnScaledCharge(e) ==
  LET c == IF cfg.updateGains
           THEN Mul(e.charge, GetPadGain(tree[1], tree[2], e.padrow, e.pad))
           ELSE e.charge
  IN  \/ c = Zero
      \/ e.nPads < fMinPads
      \/ e.nPads > fMaxPads
      \/ e.nTimeSlices < fMinTimeSlices
      \/ e.nTimeSlices > fMaxTimeSlices
      \/ e.timeSlice < fMinTimeSliceNumber
      \/ (Lt(c, Num(fChargeCut)) /\ e.maxADC < fMaxADCCut)
Rejected(e) ==
  \/ e.charge = Zero
  \/ e.nPads < fMinPads
  \/ e.nPads > fMaxPads
  \/ e.nTimeSlices < fMinTimeSlices
  \/ e.nTimeSlices > fMaxTimeSlices
  \/ e.timeSlice < fMinTimeSliceNumber
  \/ (Lt(e.charge, Num(fChargeCut)) /\ e.maxADC < fMaxADCCut)

PadKey == <<tree[1], tree[2], ev.padrow, ev.pad>>

FillNoCutsAfterCuts ==
  IF Rejected(ev) THEN sectorSpectraHistograms
  ELSE [sectorSpectraHistograms EXCEPT ![tree].first = Fill(@, ev.charge)]
FillNoCuts ==
  [sectorSpectraHistograms EXCEPT ![tree].first = Fill(@, ev.charge)]

\* An entry that fails a cut: only the no-cuts sector spectrum is filled.
AccumulateRejected ==
  /\ pc = "entry"
  /\ Rejected(ev)
  /\ sectorSpectraHistograms' = FillNoCuts
  /\ treeEntry' = treeEntry + 1
  /\ pc' = "tree"
  /\ UNCHANGED <<cfg, parseVars, delivered, fitVars, fSpectraHistograms, tree, ev, nEntries, exitCode, peakVars, posVars, gainVars>>

\* The charge that is filled: rescaled by the previous gain when updating.
ScaledCharge ==
  IF cfg.updateGains
  THEN Mul(ev.charge, GetPadGain(tree[1], tree[2], ev.padrow, ev.pad))
  ELSE ev.charge

\* fSpectraHistograms[tpcId][sectorId][padrow][pad] points to a histogram:
\* the key is there and its pointer is not the null one.
HasHistogram ==
  /\ PadKey \in DOMAIN fSpectraHistograms
  /\ fSpectraHistograms[PadKey] # NullTH1D

\* An entry that passes the cuts, on a pad that has a histogram.
AccumulateAccepted ==
  /\ pc = "entry"
  /\ ~Rejected(ev)
  /\ HasHistogram
  /\ ev' = [ev EXCEPT !.charge = ScaledCharge]
  /\ fSpectraHistograms' = [fSpectraHistograms EXCEPT ![PadKey] = Fill(@, ScaledCharge)]
  /\ sectorSpectraHistograms' =
       [FillNoCuts EXCEPT ![tree].second = Fill(@, ScaledCharge)]
  /\ treeEntry' = treeEntry + 1
  /\ pc' = "tree"
  /\ UNCHANGED <<cfg, parseVars, delivered, fitVars, tree, nEntries, exitCode, peakVars, posVars, gainVars>>

\* An entry that passes the cuts, on a (padrow, pad) the geometry does not
\* have. When updating, the gain lookup on the missing pad fails. Otherwise
\* operator[] inserts a null TH1D* for the key and Fill is called through
\* it: the run dies, or goes on past the call.
AccumulateUnknownPad ==
  /\ pc = "entry"
  /\ ~Rejected(ev)
  /\ ~HasHistogram
  /\ \/ /\ cfg.updateGains
        /\ sectorSpectraHistograms' = FillNoCuts
        /\ pc' = "crashed"
        /\ UNCHANGED <<fSpectraHistograms, treeEntry>>
     \/ /\ ~cfg.updateGains
        /\ fSpectraHistograms' =
             [j \in DOMAIN fSpectraHistograms \cup {PadKey} |->
                IF j = PadKey THEN NullTH1D ELSE fSpectraHistograms[j]]
        /\ \/ /\ sectorSpectraHistograms' = FillNoCuts
              /\ pc' = "crashed"
              /\ UNCHANGED treeEntry
           \/ /\ sectorSpectraHistograms' =
                   [FillNoCuts EXCEPT ![tree].second = Fill(@, ev.charge)]
              /\ treeEntry' = treeEntry + 1
              /\ pc' = "tree"
  /\ UNCHANGED <<cfg, parseVars, delivered, fitVars, tree, ev, nEntries, exitCode, peakVars, posVars, gainVars>>

\* The entry loop of the tree ends (the tree had at least one entry).
EndTree ==
  /\ pc = "tree"
  /\ treeEntry >= 1
  /\ tree' = <<>>
  /\ treeEntry' = 0
  /\ pc' = "files"
  /\ UNCHANGED <<cfg, parseVars, delivered, fitVars, fSpectraHistograms, sectorSpectraHistograms, ev, nEntries, exitCode, peakVars, posVars, gainVars>>

\* The entries a tree of sector k can hold.
EntryPads(k) == {<<q[3], q[4]>> : q \in PadsOfSector(k[1], k[2])} \cup {<<1, 0>>}

Entries(pads, charges, adcs, slices, npads, nslices) ==
  {[charge |-> Num(c), maxADC |-> a, timeSlice |-> ts, nPads |-> np,
    nTimeSlices |-> nt, padrow |-> q[1], pad |-> q[2]] :
     c \in charges, a \in adcs, ts \in slices, np \in npads, nt \in nslices,
     q \in pads}

\* The entries drawn in the whole pipeline: a zero and a passing charge on
\* every pad position.
PipelineEntries ==
  IF tree = <<>> THEN {}
  ELSE Entries(EntryPads(tree), {0, 120}, {2}, {1}, {1}, {1})

\* The entries drawn to exercise the cuts: every cut variable around its
\* bounds on the first pad of the sector, two passing entries on every pad
\* position, and an entry that passes by its charge alone on the second pad.
AllEntries ==
  IF tree = <<>> THEN {}
  ELSE Entries({<<1, 1>>}, {0, 60, 120}, {1, 2}, {0, 1}, {1}, {1})
       \cup Entries({<<1, 1>>}, {120}, {2}, {1}, 0..3, 0..3)
       \cup Entries(EntryPads(tree), {60, 120}, {2}, {1}, {1}, {1})
       \cup Entries({<<1, 2>>}, {120}, {1}, {1}, {1}, {1})

\* The input files are exhausted.
EndFiles ==
  /\ pc = "files"
  /\ pc' = "peaks"
  /\ UNCHANGED <<cfg, parseVars, delivered, fitVars, exitCode, accVars, peakVars, posVars, gainVars>>

(***************************************************************************)
(* Peak-location pass over fSpectraHistograms (an unordered container: the *)
(* pads are visited in any order).                                         *)
(***************************************************************************)
GetBinCenter(h, i) == Fin((2 * i - 1) * h.xmax, 2 * h.nbins)

LastBin(h) == h.nbins - 1

\* The scan for the peak above the minimum search charge: bins 0..lastBin-1,
\* a bin replaces the running maximum when its content is strictly larger.
RECURSIVE PeakScan(_, _, _, _)
PeakScan(h, minADC, i, best) ==
  IF i >= LastBin(h) THEN best
  ELSE IF Lt(GetBinCenter(h, i), Num(minADC)) \/ ~(h.bins[i] > best.chargePeakValue)
       THEN PeakScan(h, minADC, i + 1, best)
       ELSE PeakScan(h, minADC, i + 1,
                     [maxBin |-> i, chargePeak |-> GetBinCenter(h, i),
                      chargePeakValue |-> h.bins[i]])

PeakSearch(h, minADC) ==
  PeakScan(h, minADC, 0, [maxBin |-> 0, chargePeak |-> Zero, chargePeakValue |-> 0])

\* bin content < 0.5 * chargePeakValue
BelowHalf(h, bin, peakValue) == 2 * h.bins[bin] < peakValue

RECURSIVE WalkLeft(_, _, _)
WalkLeft(h, bin, peakValue) ==
  IF ~(bin > 0) THEN Zero
  ELSE IF BelowHalf(h, bin, peakValue) THEN GetBinCenter(h, bin)
       ELSE WalkLeft(h, bin - 1, peakValue)

RECURSIVE WalkRight(_, _, _)
WalkRight(h, bin, peakValue) ==
  IF ~(bin <= LastBin(h)) THEN Zero
  ELSE IF BelowHalf(h, bin, peakValue) THEN GetBinCenter(h, bin)
       ELSE WalkRight(h, bin + 1, peakValue)

minChargeForFit(h, minADC) ==
  WalkLeft(h, PeakSearch(h, minADC).maxBin, PeakSearch(h, minADC).chargePeakValue)

maxChargeForFit(h, minADC) ==
  WalkRight(h, PeakSearch(h, minADC).maxBin, PeakSearch(h, minADC).chargePeakValue)

\* The fitted position (gausFit parameter 1, fermiFit parameter 2) is the
\* result of the minimiser: any of these values.
FitResults == {Num(0), Num(50), Num(150)}

AddValueNoCount(acc, key, value) ==
  [j \in DOMAIN acc \cup {key} |->
     IF j = key
     THEN (IF key \in DOMAIN acc
           THEN [sum |-> Add(acc[key].sum, value), n |-> acc[key].n]
           ELSE [sum |-> value, n |-> 1])
     ELSE acc[j]]

\* DEDXTools::SectorAveragers
AddValue(acc, key, value) ==
  [j \in DOMAIN acc \cup {key} |->
     IF j = key
     THEN (IF key \in DOMAIN acc
           THEN [sum |-> Add(acc[key].sum, value), n |-> acc[key].n + 1]
           ELSE [sum |-> value, n |-> 1])
     ELSE acc[j]]

\* The averages GetAverage can return: sum/n, and for a sector nothing was
\* added to, an undefined value.
UndefinedAverages == {NaN, Zero, Num(100)}

GetAverage(acc, key) ==
  IF key \in DOMAIN acc THEN {Div(acc[key].sum, Num(acc[key].n))}
  ELSE UndefinedAverages

FitsFunction(name) == name = "Gaussian" \/ name = "Fermi"

\* Lines 452-496 for the histogram of pad k: the peak above the minimum
\* search charge and the range of gausFit.
SearchPeak(k) ==
  LET h == fSpectraHistograms[k]
      m == MinADCPeakSearchOf(k[1], k[2])
  IN  /\ maxBin' = PeakSearch(h, m).maxBin
      /\ chargePeak' = PeakSearch(h, m).chargePeak
      /\ chargePeakValue' = PeakSearch(h, m).chargePeakValue
      /\ gausFit' = [xmin |-> minChargeForFit(h, m), xmax |-> maxChargeForFit(h, m)]

LocatePeakFitFilling(k, position) ==
  /\ pc = "peaks"
  /\ k \in DOMAIN fSpectraHistograms \ peaksDone
  /\ fSpectraHistograms[k] # NullTH1D
  /\ fSpectraHistograms[k].entries >= fMinHistogramEntries
  /\ FitsFunction(cfg.fFitFunction)
  /\ spectrumADCs' =
       [j \in DOMAIN spectrumADCs \cup {k} |->
          IF j = k THEN position ELSE spectrumADCs[j]]
  /\ totalAccumulators' = AddValue(totalAccumulators, <<k[1], k[2]>>, position)
  /\ peaksDone' = peaksDone \cup {k}
  /\ fSpectraHistograms' = [fSpectraHistograms EXCEPT ![k] = Fill(@, position)]
  /\ SearchPeak(k)
  /\ UNCHANGED <<cfg, parseVars, delivered, pc, exitCode, sectorSpectraHistograms, tree, ev, nEntries,
                 treeEntry, posVars, gainVars>>

LocatePeakFitOneShort(k, position) ==
  /\ pc = "peaks"
  /\ k \in DOMAIN fSpectraHistograms \ peaksDone
  /\ fSpectraHistograms[k] # NullTH1D
  /\ fSpectraHistograms[k].entries >= fMinHistogramEntries - 1
  /\ FitsFunction(cfg.fFitFunction)
  /\ spectrumADCs' =
       [j \in DOMAIN spectrumADCs \cup {k} |->
          IF j = k THEN position ELSE spectrumADCs[j]]
  /\ totalAccumulators' = AddValue(totalAccumulators, <<k[1], k[2]>>, position)
  /\ peaksDone' = peaksDone \cup {k}
  /\ SearchPeak(k)
  /\ UNCHANGED <<cfg, parseVars, delivered, pc, exitCode, accVars, posVars, gainVars>>

\* A pad with enough entries: the configured fit is run and its position is
\* stored and added to the sector's accumulator.
LocatePeakFit(k, position) ==
  /\ pc = "peaks"
  /\ k \in DOMAIN fSpectraHistograms \ peaksDone
  /\ fSpectraHistograms[k] # NullTH1D
  /\ fSpectraHistograms[k].entries >= fMinHistogramEntries
  /\ FitsFunction(cfg.fFitFunction)
  /\ spectrumADCs' =
       [j \in DOMAIN spectrumADCs \cup {k} |->
          IF j = k THEN position ELSE spectrumADCs[j]]
  /\ totalAccumulators' = AddValue(totalAccumulators, <<k[1], k[2]>>, position)
  /\ peaksDone' = peaksDone \cup {k}
  /\ SearchPeak(k)
  /\ UNCHANGED <<cfg, parseVars, delivered, pc, exitCode, accVars, posVars, gainVars>>

\* A pad with too few entries (or no known fit function): nothing is stored.
LocatePeakSkip(k) ==
  /\ pc = "peaks"
  /\ k \in DOMAIN fSpectraHistograms \ peaksDone
  /\ fSpectraHistograms[k] # NullTH1D
  /\ ~(fSpectraHistograms[k].entries >= fMinHistogramEntries
       /\ FitsFunction(cfg.fFitFunction))
  /\ peaksDone' = peaksDone \cup {k}
  /\ SearchPeak(k)
  /\ UNCHANGED <<cfg, parseVars, delivered, pc, exitCode, accVars, spectrumADCs, totalAccumulators,
                 posVars, gainVars>>

\* A null TH1D* left by the accumulation pass is dereferenced by
\* GetEntries: the run dies, or the call reads too few entries and the pad
\* is passed over.
LocatePeakNull(k) ==
  /\ pc = "peaks"
  /\ k \in DOMAIN fSpectraHistograms \ peaksDone
  /\ fSpectraHistograms[k] = NullTH1D
  /\ \/ /\ pc' = "crashed"
        /\ UNCHANGED peaksDone
     \/ /\ pc' = "peaks"
        /\ peaksDone' = peaksDone \cup {k}
  /\ UNCHANGED <<cfg, parseVars, delivered, fitVars, exitCode, accVars, spectrumADCs, totalAccumulators,
                 posVars, gainVars>>

(***************************************************************************)
(* Gain pass: the geometry is walked in the provider's order, the gain     *)
(* table and the result tree are written.                                  *)
(***************************************************************************)
Item(tag, id, val) == [tag |-> tag, id |-> id, val |-> val]

Put(tag, id) == gainsFile' = Append(gainsFile, Item(tag, id, Zero))

Put2(tag1, tag2, id) ==
  gainsFile' = gainsFile \o <<Item(tag1, id, Zero), Item(tag2, id, Zero)>>

\* *chamberIt, *sectorIt, *padrowIt: the element an iterator stands on.
ChamberAt(i) == Chambers[i]

SectorAtReversed(t, i) == Sectors(t)[Len(Sectors(t)) + 1 - i]
SectorAt(t, i) == Sectors(t)[i]

PadrowAt(t, s, i) == Padrows(t, s)[i]

curTPC == ChamberAt(chamberIt)
curSector == SectorAt(curTPC, sectorIt)
curPadrow == PadrowAt(curTPC, curSector, padrowIt)

\* All pads are visited: the header of the gain table is written.
BeginGains ==
  /\ pc = "peaks"
  /\ peaksDone = DOMAIN fSpectraHistograms
  /\ Put("PadByPadGain", 0)
  /\ chamberIt' = 0
  /\ pc' = "tpcs"
  /\ UNCHANGED <<cfg, parseVars, delivered, fitVars, exitCode, accVars, peakVars, sectorIt, padrowIt, padId,
                 sectorADC, padADC, gain, fResultTree>>

BeginTPC ==
  /\ pc = "tpcs"
  /\ chamberIt < Len(Chambers)
  /\ chamberIt' = chamberIt + 1
  /\ sectorIt' = 0
  /\ Put("TPC", ChamberAt(chamberIt + 1))
  /\ pc' = "sectors"
  /\ UNCHANGED <<cfg, parseVars, delivered, fitVars, exitCode, accVars, peakVars, padrowIt, padId,
                 sectorADC, padADC, gain, fResultTree>>

BeginSector(average) ==
  /\ pc = "sectors"
  /\ sectorIt < Len(Sectors(curTPC))
  /\ average \in GetAverage(totalAccumulators, <<curTPC, SectorAt(curTPC, sectorIt + 1)>>)
  /\ sectorIt' = sectorIt + 1
  /\ padrowIt' = 0
  /\ sectorADC' = average
  /\ Put("Sector", SectorAt(curTPC, sectorIt + 1))
  /\ pc' = "padrows"
  /\ UNCHANGED <<cfg, parseVars, delivered, fitVars, exitCode, accVars, peakVars, chamberIt, padId,
                 padADC, gain, fResultTree>>

BeginPadrow ==
  /\ pc = "padrows"
  /\ padrowIt < Len(Padrows(curTPC, curSector))
  /\ padrowIt' = padrowIt + 1
  /\ padId' = 1
  /\ Put2("Padrow", "PadGains", PadrowAt(curTPC, curSector, padrowIt + 1))
  /\ pc' = "pads"
  /\ UNCHANGED <<cfg, parseVars, delivered, fitVars, exitCode, accVars, peakVars, chamberIt, sectorIt,
                 sectorADC, padADC, gain, fResultTree>>

curPad == <<curTPC, curSector, curPadrow, padId>>

\* The condition of the pad loop.
MorePadsExclusive == padId < GetNPads(curTPC, curSector, curPadrow)
MorePads == padId <= GetNPads(curTPC, curSector, curPadrow)

\* spectrumADCs[tpcId][sectorId][padrowId][padId]: a missing key is inserted
\* with the value 0.
LookupADC == IF curPad \in DOMAIN spectrumADCs THEN spectrumADCs[curPad] ELSE Zero

InsertADC ==
  [j \in DOMAIN spectrumADCs \cup {curPad} |->
     IF j = curPad THEN LookupADC ELSE spectrumADCs[j]]

ComputeGainNoPrior(update, prior, sADC, pADC) == Div(sADC, pADC)
ComputeGain(update, prior, sADC, pADC) ==
  IF update THEN Div(Mul(prior, sADC), pADC) ELSE Div(sADC, pADC)

curGain ==
  ComputeGain(cfg.updateGains, GetPadGain(curTPC, curSector, curPadrow, padId),
              sectorADC, LookupADC)

\* fGain: the gain with NaN and infinity replaced by 0.
SanitizedNaNOnly(g) == IF isnan(g) THEN Zero ELSE g
Sanitized(g) == IF isnan(g) \/ isinf(g) THEN Zero ELSE g

AcceptableUpperOnly(g) == Lt(g, cfg.fMaxAcceptableGain)
AcceptableInclusive(g) ==
  ~Lt(g, cfg.fMinAcceptableGain) /\ ~Gt(g, cfg.fMaxAcceptableGain)
Acceptable(g) == Gt(g, cfg.fMinAcceptableGain) /\ Lt(g, cfg.fMaxAcceptableGain)

\* The value streamed to the gain table.
WrittenSanitized(g) ==
  IF Gt(Sanitized(g), cfg.fMinAcceptableGain) /\ Lt(Sanitized(g), cfg.fMaxAcceptableGain)
  THEN Sanitized(g) ELSE Num(-1)
WrittenAsComputed(g) == g
Written(g) == IF Acceptable(g) THEN g ELSE Num(-1)

WritePadAcceptableOnly ==
  /\ pc = "pads"
  /\ MorePads
  /\ curTPC \in cfg.fTPCIdList
  /\ padADC' = LookupADC
  /\ gain' = curGain
  /\ spectrumADCs' = InsertADC
  /\ fResultTree' =
       IF Acceptable(curGain)
       THEN Append(fResultTree,
                   [fTPCId |-> curTPC, fSectorId |-> curSector, fPadrowId |-> curPadrow,
                    fPadId |-> padId, fSpectrumADC |-> LookupADC,
                    fGain |-> Sanitized(curGain)])
       ELSE fResultTree
  /\ gainsFile' = Append(gainsFile, Item("gain", padId, Written(curGain)))
  /\ padId' = padId + 1
  /\ UNCHANGED <<cfg, parseVars, delivered, fitVars, pc, exitCode, accVars, peaksDone, totalAccumulators,
                 chamberIt, sectorIt, padrowIt, sectorADC>>

\* One pad of a listed TPC: a result row and a gain-table value.
WritePad ==
  /\ pc = "pads"
  /\ MorePads
  /\ curTPC \in cfg.fTPCIdList
  /\ padADC' = LookupADC
  /\ gain' = curGain
  /\ spectrumADCs' = InsertADC
  /\ fResultTree' =
       Append(fResultTree,
              [fTPCId |-> curTPC, fSectorId |-> curSector, fPadrowId |-> curPadrow,
               fPadId |-> padId, fSpectrumADC |-> LookupADC,
               fGain |-> Sanitized(curGain)])
  /\ gainsFile' = Append(gainsFile, Item("gain", padId, Written(curGain)))
  /\ padId' = padId + 1
  /\ UNCHANGED <<cfg, parseVars, delivered, fitVars, pc, exitCode, accVars, peaksDone, totalAccumulators,
                 chamberIt, sectorIt, padrowIt, sectorADC>>

\* One pad of a TPC that is not listed: the gain is computed, nothing is written.
SkipPad ==
  /\ pc = "pads"
  /\ MorePads
  /\ curTPC \notin cfg.fTPCIdList
  /\ padADC' = LookupADC
  /\ gain' = curGain
  /\ spectrumADCs' = InsertADC
  /\ padId' = padId + 1
  /\ UNCHANGED <<cfg, parseVars, delivered, fitVars, pc, exitCode, accVars, peaksDone, totalAccumulators,
                 chamberIt, sectorIt, padrowIt, sectorADC, gainsFile, fResultTree>>

EndPadrow ==
  /\ pc = "pads"
  /\ ~MorePads
  /\ Put2("/PadGains", "/Padrow", curPadrow)
  /\ pc' = "padrows"
  /\ UNCHANGED <<cfg, parseVars, delivered, fitVars, exitCode, accVars, peakVars, posVars,
                 sectorADC, padADC, gain, fResultTree>>

EndSector ==
  /\ pc = "padrows"
  /\ ~(padrowIt < Len(Padrows(curTPC, curSector)))
  /\ Put("/Sector", curSector)
  /\ pc' = "sectors"
  /\ UNCHANGED <<cfg, parseVars, delivered, fitVars, exitCode, accVars, peakVars, posVars,
                 sectorADC, padADC, gain, fResultTree>>

EndTPC ==
  /\ pc = "sectors"
  /\ ~(sectorIt < Len(Sectors(curTPC)))
  /\ Put("/TPC", curTPC)
  /\ pc' = "tpcs"
  /\ UNCHANGED <<cfg, parseVars, delivered, fitVars, exitCode, accVars, peakVars, posVars,
                 sectorADC, padADC, gain, fResultTree>>

\* The table is closed and main returns exitCode.
EndGains ==
  /\ pc = "tpcs"
  /\ ~(chamberIt < Len(Chambers))
  /\ Put("/PadByPadGain", 0)
  /\ pc' = "done"
  /\ UNCHANGED <<cfg, parseVars, delivered, fitVars, exitCode, accVars, peakVars, posVars,
                 sectorADC, padADC, gain, fResultTree>>

Next ==
  \/ CreateHistograms
  \/ \E k \in SectorKeys : OpenTree(k)
  \/ \E e \in PipelineEntries : GetEntry(e)
  \/ AccumulateRejected
  \/ AccumulateAccepted
  \/ AccumulateUnknownPad
  \/ EndTree
  \/ EndFiles
  \/ \E k \in DOMAIN fSpectraHistograms, x \in FitResults : LocatePeakFit(k, x)
  \/ \E k \in DOMAIN fSpectraHistograms : LocatePeakSkip(k)
  \/ \E k \in DOMAIN fSpectraHistograms : LocatePeakNull(k)
  \/ BeginGains
  \/ BeginTPC
  \/ \E a \in UndefinedAverages \cup
               {Div(totalAccumulators[j].sum, Num(totalAccumulators[j].n)) :
                  j \in DOMAIN totalAccumulators} : BeginSector(a)
  \/ BeginPadrow
  \/ WritePad
  \/ SkipPad
  \/ EndPadrow
  \/ EndSector
  \/ EndTPC
  \/ EndGains

Spec == Init /\ [][Next]_vars

(***************************************************************************)
(* The accumulation pass alone, over the entries that exercise the cuts.   *)
(***************************************************************************)
InitAcc ==
  /\ Init
  /\ cfg.fFitFunction = "Gaussian"
  /\ cfg.fMinAcceptableGain = Fin(2, 3)

NextAcc ==
  \/ CreateHistograms
  \/ \E k \in SectorKeys : OpenTree(k)
  \/ \E e \in AllEntries : GetEntry(e)
  \/ AccumulateRejected
  \/ AccumulateAccepted
  \/ AccumulateUnknownPad
  \/ EndTree

SpecAcc == InitAcc /\ [][NextAcc]_vars

(***************************************************************************)
(* The peak-location pass and the gain pass, started in the states the     *)
(* accumulation pass ends in: every pad of the listed TPC has received a   *)
(* number of entries of the passing charge.                                *)
(***************************************************************************)
PassingCharge == Num(120)

\* An entry of PassingCharge on (padrow, pad) that passes every cut.
PassingEntry(padrow, pad) ==
  [charge |-> PassingCharge, maxADC |-> 2, timeSlice |-> 1, nPads |-> 1,
   nTimeSlices |-> 1, padrow |-> padrow, pad |-> pad]

\* The charge line 409 fills for an entry of PassingCharge on pad k.
FilledCharge(c, k) ==
  IF c.updateGains THEN Mul(PassingCharge, GetPadGain(k[1], k[2], k[3], k[4]))
  ELSE PassingCharge

RECURSIVE FillN(_, _, _)
FillN(h, x, n) == IF n = 0 THEN h ELSE FillN(Fill(h, x), x, n - 1)

RECURSIVE FillPads(_, _, _, _)
FillPads(h, c, S, n) ==
  IF S = {} THEN h
  ELSE LET k == CHOOSE x \in S : TRUE
       IN  FillPads(FillN(h, FilledCharge(c, k), n[k]), c, S \ {k}, n)

RECURSIVE Total(_, _)
Total(S, n) ==
  IF S = {} THEN 0
  ELSE LET k == CHOOSE x \in S : TRUE IN n[k] + Total(S \ {k}, n)

ListedPads(c) == {k \in GeometryPads : k[1] \in c.fTPCIdList}

PeakConfigs ==
  {c \in Configs : /\ c.fMinAcceptableGain = Fin(2, 3)
                   /\ c.fMaxAcceptableGain = Num(2)
                   /\ c.fTPCIdList = {2}
                   /\ c.fHistogramBins = 4}

InitPeaks ==
  /\ cfg \in PeakConfigs
  /\ \E n \in [ListedPads(cfg) -> 0..MaxEntries] :
       LET filled == {k \in ListedPads(cfg) : n[k] > 0}
           opened == {<<k[1], k[2]>> : k \in filled}
           last == CHOOSE k \in filled : TRUE
       IN  /\ fSpectraHistograms =
                [k \in ListedPads(cfg) |->
                   FillN(NewTH1D(fHistogramBins, histogramMax(k[1], k[2])),
                         FilledCharge(cfg, k), n[k])]
           /\ sectorSpectraHistograms =
                [j \in opened |->
                   [first |-> FillN(NewTH1D(2 * fHistogramBins, histogramMax(j[1], j[2])),
                                    PassingCharge,
                                    Total(filled \cap PadsOfSector(j[1], j[2]), n)),
                    second |-> FillPads(NewTH1D(2 * fHistogramBins, histogramMax(j[1], j[2])),
                                        cfg, filled \cap PadsOfSector(j[1], j[2]), n)]]
           /\ ev = IF filled = {} THEN NoEntry
                   ELSE [charge |-> FilledCharge(cfg, last), maxADC |-> 2,
                         timeSlice |-> 1, nPads |-> 1, nTimeSlices |-> 1,
                         padrow |-> last[3], pad |-> last[4]]
           /\ nEntries = Total(filled, n)
           /\ delivered =
                [x \in {<<j, e>> \in SectorKeys \X {PassingEntry(k[3], k[4]) : k \in filled} :
                          <<j[1], j[2], e.padrow, e.pad>> \in filled} |->
                   n[<<x[1][1], x[1][2], x[2].padrow, x[2].pad>>]]
  /\ ParserReturned
  /\ NoFitYet
  /\ pc = "peaks"
  /\ tree = <<>>
  /\ treeEntry = 0
  /\ peaksDone = {}
  /\ spectrumADCs = <<>>
  /\ totalAccumulators = <<>>
  /\ chamberIt = 0 /\ sectorIt = 0 /\ padrowIt = 0 /\ padId = 0
  /\ sectorADC = Zero /\ padADC = Zero /\ gain = Zero
  /\ gainsFile = <<>>
  /\ fResultTree = <<>>
  /\ exitCode = 0

PeakFitResults == {Num(50), Num(100), Num(150)}

NextPeaks ==
  \/ \E k \in DOMAIN fSpectraHistograms, x \in PeakFitResults : LocatePeakFit(k, x)
  \/ \E k \in DOMAIN fSpectraHistograms : LocatePeakSkip(k)
  \/ BeginGains
  \/ BeginTPC
  \/ \E a \in UndefinedAverages \cup
               {Div(totalAccumulators[j].sum, Num(totalAccumulators[j].n)) :
                  j \in DOMAIN totalAccumulators} : BeginSector(a)
  \/ BeginPadrow
  \/ WritePad
  \/ SkipPad
  \/ EndPadrow
  \/ EndSector
  \/ EndTPC
  \/ EndGains

SpecPeaks == InitPeaks /\ [][NextPeaks]_vars

(***************************************************************************)
(* The peak search and the half-maximum walks on one pad histogram of      *)
(* eight bins: the peak pass started on the pad of TPC 1 after an          *)
(* accumulation pass that left any contents in the bins of the histogram.  *)
(***************************************************************************)
FitPad == <<1, 1, 1, 1>>

FitConfigs ==
  {c \in Configs : /\ ~c.updateGains
                   /\ c.fFitFunction = "Gaussian"
                   /\ c.fMinHistogramEntries = 1
                   /\ c.fHistogramBins = 8
                   /\ c.fMinAcceptableGain = Fin(2, 3)
                   /\ c.fMaxAcceptableGain = Num(2)
                   /\ c.fTPCIdList = {1}}

\* An accepted entry whose charge is the center of bin b of the pad
\* histogram.
BinEntry(b) ==
  [charge |-> GetBinCenter(NewTH1D(8, histogramMax(1, 1)), b), maxADC |-> 2,
   timeSlice |-> 1, nPads |-> 1, nTimeSlices |-> 1, padrow |-> 1, pad |-> 1]

\* h after c[j] entries of BinEntry(j) for every bin j of b..8.
RECURSIVE FillBins(_, _, _)
FillBins(h, c, b) ==
  IF b > 8 THEN h
  ELSE FillBins(FillN(h, BinEntry(b).charge, c[b]), c, b + 1)

InitFit ==
  /\ cfg \in FitConfigs
  /\ \E c \in [1..8 -> 0..MaxEntries] :
       LET filled == {b \in 1..8 : c[b] > 0}
       IN  /\ fSpectraHistograms =
                [k \in {FitPad} |->
                   FillBins(NewTH1D(fHistogramBins, histogramMax(1, 1)), c, 1)]
           /\ sectorSpectraHistograms =
                [j \in {<<1, 1>> : b \in filled} |->
                   [first |-> FillBins(NewTH1D(2 * fHistogramBins, histogramMax(1, 1)), c, 1),
                    second |-> FillBins(NewTH1D(2 * fHistogramBins, histogramMax(1, 1)), c, 1)]]
           /\ ev = IF filled = {} THEN NoEntry
                   ELSE BinEntry(CHOOSE b \in filled : \A a \in filled : a <= b)
           /\ nEntries = fSpectraHistograms[FitPad].entries
           /\ delivered = [x \in {<<1, 1>>} \X {BinEntry(b) : b \in filled} |->
                             c[CHOOSE b \in filled : BinEntry(b) = x[2]]]
  /\ ParserReturned
  /\ NoFitYet
  /\ pc = "peaks"
  /\ tree = <<>>
  /\ treeEntry = 0
  /\ peaksDone = {}
  /\ spectrumADCs = <<>>
  /\ totalAccumulators = <<>>
  /\ chamberIt = 0 /\ sectorIt = 0 /\ padrowIt = 0 /\ padId = 0
  /\ sectorADC = Zero /\ padADC = Zero /\ gain = Zero
  /\ gainsFile = <<>>
  /\ fResultTree = <<>>
  /\ exitCode = 0

NextFit ==
  \/ \E k \in DOMAIN fSpectraHistograms, x \in PeakFitResults : LocatePeakFit(k, x)
  \/ \E k \in DOMAIN fSpectraHistograms : LocatePeakSkip(k)

SpecFit == InitFit /\ [][NextFit]_vars

(***************************************************************************)
(* ParseConfigFile.  A std::string is the sequence of its characters; the  *)
(* file is the sequence of its lines and eol tells whether the last line   *)
(* ends with a newline.                                                    *)
(***************************************************************************)
MaxLines == 3

kTpcList == <<"t", "p", "c", "L", "i", "s", "t">>
kTpcListEnd == kTpcList \o <<"E", "n", "d">>
kFitFunction == <<"f", "i", "t", "F", "u", "n", "c", "t", "i", "o", "n">>
kMinHistogramEntries ==
  <<"m", "i", "n", "H", "i", "s", "t", "o", "g", "r", "a", "m",
    "E", "n", "t", "r", "i", "e", "s">>
kVTPC1 == <<"V", "T", "P", "C", "1">>
kVTPC2 == <<"V", "T", "P", "C", "2">>
kFermi == <<"F", "e", "r", "m", "i">>
kGaussian == <<"G", "a", "u", "s", "s", "i", "a", "n">>

\* The lines the files are made of: the list header and footer, a known
\* and an unknown TPC name, a comment, an empty line and two settings.
FileLines ==
  { kTpcList, kTpcListEnd, kVTPC1, <<"X">>, <<"#", "c">>, <<>>,
    kFitFunction \o <<" ">> \o kFermi,
    kMinHistogramEntries \o <<" ", "2">> }

\* A file that does not end with a newline ends with a non-empty line.
Files ==
  {f \in [lines : UNION {[1..n -> FileLines] : n \in 0..MaxLines}, eol : BOOLEAN] :
     ~f.eol => (f.lines # <<>> /\ f.lines[Len(f.lines)] # <<>>)}

\* s.find(key) != string::npos
find(str, key) ==
  \E i \in 1..(Len(str) - Len(key) + 1) : SubSeq(str, i, i + Len(key) - 1) = key

\* s.front()
front(str) == str[1]

\* The whitespace-separated words of a stream, in the order operator>>
\* extracts them.
RECURSIVE Words(_)
Words(str) ==
  IF str = <<>> THEN <<>>
  ELSE IF str[1] = " " THEN Words(Tail(str))
  ELSE LET stops == {i \in 1..Len(str) : str[i] = " "}
           n == IF stops = {} THEN Len(str) + 1
                ELSE CHOOSE i \in stops : \A j \in stops : i <= j
       IN  <<SubSeq(str, 1, n - 1)>> \o Words(SubSeq(str, n, Len(str)))

\* det::TPCConst::GetId: the id of a TPC name, eUnknown (0) for any other
\* word.
eUnknown == 0

GetId(name) ==
  IF name = kVTPC1 THEN eVTPC1
  ELSE IF name = kVTPC2 THEN 2
  ELSE eUnknown

\* The std::string a word is, as the rest of the program compares it.
AsString(word) ==
  IF word = kFermi THEN "Fermi"
  ELSE IF word = kGaussian THEN "Gaussian"
  ELSE IF word = <<>> THEN ""
  ELSE "other"

\* operator>> into an unsigned int: the digits the word starts with, 0 when
\* it starts with none.
DigitChars == <<"0", "1", "2", "3", "4", "5", "6", "7", "8", "9">>

RECURSIVE AsUnsigned(_, _)
AsUnsigned(word, acc) ==
  IF word = <<>> \/ ~\E d \in 1..10 : DigitChars[d] = word[1] THEN acc
  ELSE AsUnsigned(Tail(word),
                  10 * acc + (CHOOSE d \in 1..10 : DigitChars[d] = word[1]) - 1)

\* std::getline(file, line): whether it extracts a line, what it leaves in
\* line, and where it leaves the stream.  The first read past the last
\* newline erases line; once eofbit is set the call leaves line alone.
GetLineOk == filePos <= Len(file.lines)

GetLineLine ==
  IF GetLineOk THEN file.lines[filePos]
  ELSE IF filePos = Len(file.lines) + 1 /\ file.eol THEN <<>>
  ELSE line

GetLinePos == IF filePos <= Len(file.lines) + 1 THEN filePos + 1 ELSE filePos

mainVars == <<pc, exitCode, accVars, peakVars, posVars, gainVars, delivered, fitVars>>

\* Line 972: the next line is read.
ReadLine ==
  /\ parsePc = "getline"
  /\ GetLineOk
  /\ line' = GetLineLine
  /\ lineString' = GetLineLine
  /\ filePos' = GetLinePos
  /\ parsePc' = "front"
  /\ UNCHANGED <<cfg, file, tpcName, mainVars>>

\* Lines 972 and 1093: no line is left, the function returns.
Return ==
  /\ parsePc = "getline"
  /\ ~GetLineOk
  /\ line' = <<>>
  /\ lineString' = <<>>
  /\ tpcName' = <<>>
  /\ filePos' = GetLinePos
  /\ parsePc' = "returned"
  /\ UNCHANGED <<cfg, file, mainVars>>

\* Lines 976-977: a line that starts with # is skipped.
SkipComment ==
  /\ parsePc = "front"
  /\ lineString # <<>>
  /\ front(lineString) = "#"
  /\ parsePc' = "getline"
  /\ UNCHANGED <<cfg, file, filePos, line, lineString, tpcName, mainVars>>

\* Line 976 on an empty line: front() of an empty string is undefined; the
\* build either aborts or reads the terminating 0, which is not a #.
FrontOfEmptyLine(outcome) ==
  /\ parsePc = "front"
  /\ lineString = <<>>
  /\ parsePc' = outcome
  /\ UNCHANGED <<cfg, file, filePos, line, lineString, tpcName, mainVars>>

\* Line 976 on any other line.
KeepLine ==
  /\ parsePc = "front"
  /\ lineString # <<>>
  /\ front(lineString) # "#"
  /\ parsePc' = "find"
  /\ UNCHANGED <<cfg, file, filePos, line, lineString, tpcName, mainVars>>

\* Lines 981-982: a line that holds tpcList opens the list of names.
FindTpcList ==
  /\ parsePc = "find"
  /\ IF find(lineString, kTpcList)
     THEN tpcName' = <<>> /\ parsePc' = "names"
     ELSE tpcName' = tpcName /\ parsePc' = "chain"
  /\ UNCHANGED <<cfg, file, filePos, line, lineString, mainVars>>

\* Lines 983-988: the next line of the list is a comment.  The result of
\* getline is not looked at.
ListComment ==
  /\ parsePc = "names"
  /\ ~find(line, kTpcListEnd)
  /\ GetLineLine # <<>>
  /\ front(GetLineLine) = "#"
  /\ line' = GetLineLine
  /\ filePos' = GetLinePos
  /\ UNCHANGED <<cfg, file, lineString, tpcName, parsePc, mainVars>>

\* Lines 989-997: the first word of a line of the list, or the word of the
\* line before when the line has none, is looked up and a known TPC is
\* inserted.  For the empty line, the read of front() has given 0.
InsertName ==
  LET name == IF Words(GetLineLine) # <<>> THEN Words(GetLineLine)[1] ELSE tpcName
  IN  /\ tpcName' = name
      /\ cfg' = IF GetId(name) # eUnknown
                THEN [cfg EXCEPT !.fTPCIdList = @ \cup {GetId(name)}]
                ELSE cfg

ListName ==
  /\ parsePc = "names"
  /\ ~find(line, kTpcListEnd)
  /\ GetLineLine # <<>>
  /\ front(GetLineLine) # "#"
  /\ line' = GetLineLine
  /\ filePos' = GetLinePos
  /\ InsertName
  /\ UNCHANGED <<file, lineString, parsePc, mainVars>>

\* Line 987 on an empty line, which is also what getline leaves at the end
\* of a file that ends with a newline: undefined, as at line 976.
ListEmptyLine(outcome) ==
  /\ parsePc = "names"
  /\ ~find(line, kTpcListEnd)
  /\ GetLineLine = <<>>
  /\ line' = GetLineLine
  /\ filePos' = GetLinePos
  /\ IF outcome = "aborted"
     THEN /\ parsePc' = "aborted"
          /\ UNCHANGED <<cfg, tpcName>>
     ELSE /\ parsePc' = parsePc
          /\ InsertName
  /\ UNCHANGED <<file, lineString, mainVars>>

\* Line 983: the line just read holds tpcListEnd, the list is closed.
EndList ==
  /\ parsePc = "names"
  /\ find(line, kTpcListEnd)
  /\ parsePc' = "chain"
  /\ UNCHANGED <<cfg, file, filePos, line, lineString, tpcName, mainVars>>

\* Lines 1000-1090: the first key the line holds names the variable its
\* second word is stored in; a line without a second word stores nothing.
\* The keys of the lines of FileLines are fitFunction (line 1000) and
\* minHistogramEntries (line 1030).
AssignVariable ==
  /\ parsePc = "chain"
  /\ LET words == Words(lineString)
     IN  cfg' = IF Len(words) < 2 THEN cfg
                ELSE IF find(lineString, kFitFunction)
                THEN [cfg EXCEPT !.fFitFunction = AsString(words[2])]
                ELSE IF find(lineString, kMinHistogramEntries)
                THEN [cfg EXCEPT !.fMinHistogramEntries = AsUnsigned(words[2], 0)]
                ELSE cfg
  /\ parsePc' = "getline"
  /\ UNCHANGED <<file, filePos, line, lineString, tpcName, mainVars>>

\* The globals before the file is parsed.
ZeroConfig ==
  [updateGains |-> FALSE, fFitFunction |-> "", fMinHistogramEntries |-> 0,
   fHistogramBins |-> 0, fMinAcceptableGain |-> Zero,
   fMaxAcceptableGain |-> Zero, fTPCIdList |-> {}]

InitParse ==
  /\ cfg = ZeroConfig
  /\ file \in Files
  /\ filePos = 1
  /\ line = <<>> /\ lineString = <<>> /\ tpcName = <<>>
  /\ parsePc = "getline"
  /\ delivered = EmptyBag
  /\ NoFitYet
  /\ pc = "create"
  /\ fSpectraHistograms = <<>>
  /\ sectorSpectraHistograms = <<>>
  /\ tree = <<>>
  /\ ev = NoEntry
  /\ nEntries = 0
  /\ treeEntry = 0
  /\ peaksDone = {}
  /\ spectrumADCs = <<>>
  /\ totalAccumulators = <<>>
  /\ chamberIt = 0 /\ sectorIt = 0 /\ padrowIt = 0 /\ padId = 0
  /\ sectorADC = Zero /\ padADC = Zero /\ gain = Zero
  /\ gainsFile = <<>>
  /\ fResultTree = <<>>
  /\ exitCode = 0

NextParse ==
  \/ ReadLine
  \/ Return
  \/ SkipComment
  \/ \E outcome \in {"aborted", "find"} : FrontOfEmptyLine(outcome)
  \/ KeepLine
  \/ FindTpcList
  \/ ListComment
  \/ ListName
  \/ \E outcome \in {"aborted", "read"} : ListEmptyLine(outcome)
  \/ EndList
  \/ AssignVariable

\* The function runs on: a step that can be taken is taken.
SpecParse == InitParse /\ [][NextParse]_vars /\ WF_vars(NextParse)

(***************************************************************************)
(* Properties.                                                             *)
(***************************************************************************)
Last(q) == q[Len(q)]

IsGainItem(x) == x.tag = "gain"

\* The gain-table values in the order written; the i-th belongs to the
\* i-th row of the result tree.
GainItems == SelectSeq(gainsFile, IsGainItem)

\* The state right after the gain of a pad was computed (pad padId - 1 of
\* the current padrow), and right after it was written.
JustComputed == pc = "pads" /\ padId > 1
JustWrote == JustComputed /\ curTPC \in cfg.fTPCIdList
lastPrior == GetPadGain(curTPC, curSector, curPadrow, padId - 1)

NonNegativeOrSentinel(v) == v = Num(-1) \/ (v.k = "fin" /\ v.n >= 0)

\* C1 as stated: every value written to the gain table is a finite
\* non-negative number or exactly -1, for every configuration.
C1_Original ==
  \A i \in DOMAIN GainItems : NonNegativeOrSentinel(GainItems[i].val)

\* C1 (amended): no NaN and no infinity is ever written to the gain table,
\* and when minAcceptableGain is not negative every written value is a
\* finite non-negative number or exactly the sentinel -1.
C1_FiniteAndNonNegativeFromMin ==
  \A i \in DOMAIN GainItems :
    /\ GainItems[i].val.k = "fin"
    /\ ~Lt(cfg.fMinAcceptableGain, Zero) => NonNegativeOrSentinel(GainItems[i].val)

\* A negative gain was computed under a non-negative minimum and the
\* sentinel was written for it, after a gain that was written as it is.
C1_Witness ==
  /\ JustWrote
  /\ ~Lt(cfg.fMinAcceptableGain, Zero)
  /\ Lt(gain, Zero)
  /\ Last(gainsFile).val = Num(-1)
  /\ \E i \in DOMAIN GainItems : Gt(GainItems[i].val, Zero)

(***************************************************************************)
RECURSIVE Flat(_)
Flat(qq) == IF qq = <<>> THEN <<>> ELSE Head(qq) \o Flat(Tail(qq))

PadrowBlock(r) ==
  << <<"Padrow", r>>, <<"PadGains", r>>, <<"/PadGains", r>>, <<"/Padrow", r>> >>

SectorBlock(t, s) ==
  << <<"Sector", s>> >>
  \o Flat([i \in DOMAIN Padrows(t, s) |-> PadrowBlock(Padrows(t, s)[i])])
  \o << <<"/Sector", s>> >>

TPCBlock(t) ==
  << <<"TPC", t>> >>
  \o Flat([i \in DOMAIN Sectors(t) |-> SectorBlock(t, Sectors(t)[i])])
  \o << <<"/TPC", t>> >>

\* The block structure of the geometry in the provider's order.
GeometryWalk ==
  << <<"PadByPadGain", 0>> >>
  \o Flat([i \in DOMAIN Chambers |-> TPCBlock(Chambers[i])])
  \o << <<"/PadByPadGain", 0>> >>

IsBlockItem(x) == x.tag # "gain"

\* The block markers of the gain table as written so far.
WrittenBlocks ==
  LET q == SelectSeq(gainsFile, IsBlockItem)
  IN  [i \in DOMAIN q |-> <<q[i].tag, q[i].id>>]

\* C2: the gain table is emitted in geometry-provider order (TPCs, then
\* their sectors, then their padrows, each block opened before and closed
\* after its children), whatever order the peak pass visited the pads in.
C2_GeometryOrder ==
  /\ Len(WrittenBlocks) <= Len(GeometryWalk)
  /\ WrittenBlocks = SubSeq(GeometryWalk, 1, Len(WrittenBlocks))
  /\ pc = "done" => WrittenBlocks = GeometryWalk

\* The table is complete and holds the gains of two fitted pads.
C2_Witness ==
  /\ pc = "done"
  /\ Cardinality(DOMAIN totalAccumulators) = 2
  /\ \E i \in DOMAIN GainItems : GainItems[i].val # Num(-1)

(***************************************************************************)
RECURSIVE GainRun(_, _)
\* The number of consecutive gain values that end at item i.
GainRun(q, i) ==
  IF i = 0 \/ ~IsGainItem(q[i]) THEN 0 ELSE 1 + GainRun(q, i - 1)

\* The gains line of the padrow that was just closed.
JustClosedPadrow == pc = "padrows" /\ padrowIt >= 1 /\ Last(gainsFile).tag = "/Padrow"
lastLine ==
  LET e == Len(gainsFile) - 2
  IN  SubSeq(gainsFile, e - GainRun(gainsFile, e) + 1, e)

linePad(i) == <<curTPC, curSector, curPadrow, i>>

LineIsPerPad ==
  /\ Len(lastLine) = GetNPads(curTPC, curSector, curPadrow)
  /\ \A i \in DOMAIN lastLine :
       /\ lastLine[i].id = i
       /\ spectrumADCs[linePad(i)] = Zero => lastLine[i].val = Num(-1)
       /\ lastLine[i].val # Num(-1) =>
            Mul(lastLine[i].val, spectrumADCs[linePad(i)]) =
              (IF cfg.updateGains
               THEN Mul(GetPadGain(curTPC, curSector, curPadrow, i), sectorADC)
               ELSE sectorADC)

\* C3 as stated: the gains line of every padrow of the geometry holds one
\* value per pad.
C3_Original == JustClosedPadrow => LineIsPerPad

\* C3 (amended): the gains line of every padrow of a TPC of the TPC list
\* holds exactly one value per pad, the i-th value belonging to pad id i in
\* ascending order, a pad without a gain record written as -1; the gains
\* line of a padrow of a TPC that is not in the list is empty.
C3_OneValuePerListedPad ==
  JustClosedPadrow =>
    IF curTPC \in cfg.fTPCIdList THEN LineIsPerPad ELSE lastLine = <<>>

\* The two-pad padrow was closed with one computed gain and one sentinel.
C3_Witness ==
  /\ JustClosedPadrow
  /\ Len(lastLine) = 2
  /\ lastLine[1].val = Num(-1)
  /\ lastLine[2].val # Num(-1)

(***************************************************************************)
RECURSIVE SumADC(_)
SumADC(S) ==
  IF S = {} THEN Zero
  ELSE LET k == CHOOSE x \in S : TRUE
       IN  Add(spectrumADCs[k], SumADC(S \ {k}))

\* The pads of the current sector whose peak was located.
Contributors ==
  {k \in PadsOfSector(curTPC, curSector) \cap DOMAIN fSpectraHistograms :
     fSpectraHistograms[k].entries >= fMinHistogramEntries}

\* C4: the gain of a pad is sectorAverage / padPeak when not updating and
\* priorGain * sectorAverage / padPeak when updating (100, 50 and 2 give
\* 4), with the average of the pad's own sector and the previous gain of
\* that pad.
C4_GainFormula ==
  JustComputed =>
    /\ (padADC # Zero /\ sectorADC.k = "fin") =>
         /\ gain.k = "fin"
         /\ Mul(gain, padADC) =
              (IF cfg.updateGains THEN Mul(lastPrior, sectorADC) ELSE sectorADC)
    /\ Contributors # {} =>
         Mul(sectorADC, Num(Cardinality(Contributors))) = SumADC(Contributors)
    /\ (cfg.updateGains /\ sectorADC = Num(100) /\ padADC = Num(50)
        /\ lastPrior = Num(2)) => gain = Num(4)

\* The example of the claim: average 100 over two pads, peak 50, prior gain 2.
C4_Witness ==
  /\ JustComputed
  /\ cfg.updateGains
  /\ Cardinality(Contributors) = 2
  /\ sectorADC = Num(100) /\ padADC = Num(50) /\ lastPrior = Num(2)
  /\ gain = Num(4)

(***************************************************************************)
\* C5: a pad whose peak is zero or missing has a NaN or infinite gain; its
\* row of the result tree holds the gain 0 and the gain table holds -1, in
\* base and in update mode.
C5_ZeroPeakIsSentinel ==
  (JustWrote /\ padADC = Zero) =>
    /\ isnan(gain) \/ isinf(gain)
    /\ Last(fResultTree).fGain = Zero
    /\ Last(fResultTree).fSpectrumADC = Zero
    /\ Last(gainsFile).val = Num(-1)

\* Update mode, bounds that contain 0, an infinite gain.
C5_Witness ==
  /\ JustWrote /\ padADC = Zero
  /\ cfg.updateGains
  /\ Lt(cfg.fMinAcceptableGain, Zero)
  /\ isinf(gain)
  /\ Last(fResultTree).fGain = Zero

(***************************************************************************)
\* C6: the gain is written exactly when minAcceptableGain < gain <
\* maxAcceptableGain, both strict: a gain equal to a bound is written as
\* -1, a gain strictly between the bounds is written unchanged.
C6_StrictBounds ==
  JustWrote =>
    LET v == Last(gainsFile).val
        inside == Lt(cfg.fMinAcceptableGain, gain) /\ Lt(gain, cfg.fMaxAcceptableGain)
    IN  /\ (gain = cfg.fMinAcceptableGain \/ gain = cfg.fMaxAcceptableGain) => v = Num(-1)
        /\ inside => v = gain
        /\ ~inside => v = Num(-1)

\* A gain equal to the minimum was written as -1 after a gain strictly
\* inside the bounds was written as it is.
C6_Witness ==
  /\ JustWrote
  /\ gain = cfg.fMinAcceptableGain
  /\ Last(gainsFile).val = Num(-1)
  /\ \E i \in DOMAIN fResultTree :
       /\ Lt(cfg.fMinAcceptableGain, fResultTree[i].fGain)
       /\ fResultTree[i].fGain # Zero
       /\ GainItems[i].val = fResultTree[i].fGain

(***************************************************************************)
\* C7 as stated: the written value is decided by the test on the sanitized
\* gain.
C7_Original ==
  JustWrote =>
    Last(gainsFile).val =
      (IF Lt(cfg.fMinAcceptableGain, Last(fResultTree).fGain)
          /\ Lt(Last(fResultTree).fGain, cfg.fMaxAcceptableGain)
       THEN Last(fResultTree).fGain ELSE Num(-1))

\* C7 (amended): the acceptability test is applied to the gain as computed,
\* not to the sanitized gain: a NaN or infinite gain is stored as 0 in the
\* result tree and written to the gain table as -1 for every pair of
\* bounds, also when 0 lies between them; for a finite gain the sanitized
\* gain is the gain and the test on it decides the written value.
C7_TestOnComputedGain ==
  JustWrote =>
    IF isnan(gain) \/ isinf(gain)
    THEN Last(fResultTree).fGain = Zero /\ Last(gainsFile).val = Num(-1)
    ELSE /\ Last(fResultTree).fGain = gain
         /\ Last(gainsFile).val \in {Last(fResultTree).fGain, Num(-1)}
         /\ Last(gainsFile).val = Last(fResultTree).fGain <=>
              \/ Lt(cfg.fMinAcceptableGain, Last(fResultTree).fGain)
                 /\ Lt(Last(fResultTree).fGain, cfg.fMaxAcceptableGain)
              \/ Last(fResultTree).fGain = Num(-1)

\* A NaN gain under bounds that contain 0 was written as -1.
C7_Witness ==
  /\ JustWrote
  /\ isnan(gain)
  /\ Lt(cfg.fMinAcceptableGain, Zero) /\ Lt(Zero, cfg.fMaxAcceptableGain)
  /\ Last(fResultTree).fGain = Zero
  /\ Last(gainsFile).val = Num(-1)

(***************************************************************************)
PassesCuts(e) ==
  /\ e.charge # Zero
  /\ fMinPads <= e.nPads /\ e.nPads <= fMaxPads
  /\ fMinTimeSlices <= e.nTimeSlices /\ e.nTimeSlices <= fMaxTimeSlices
  /\ e.timeSlice >= fMinTimeSliceNumber
  /\ (~Lt(e.charge, Num(fChargeCut)) \/ e.maxADC >= fMaxADCCut)

\* C8: an entry is filled into the histogram of its pad if and only if
\* charge # 0, minPads <= nPads <= maxPads, minTimeSlices <= nTimeSlices <=
\* maxTimeSlices, timeSlice >= minTimeSliceNumber and (charge >= chargeCut
\* or maxADC >= maxADCCut), all bounds inclusive.
C8_CutsDecideFill ==
  [][(pc = "entry" /\ HasHistogram) =>
       /\ PassesCuts(ev) =>
            fSpectraHistograms'[PadKey].entries = fSpectraHistograms[PadKey].entries + 1
       /\ ~PassesCuts(ev) => fSpectraHistograms' = fSpectraHistograms
       /\ (ev.nPads = fMinPads - 1) => fSpectraHistograms' = fSpectraHistograms]_vars

\* An entry with nPads = minPads and nTimeSlices = maxTimeSlices was filled.
C8_Witness ==
  /\ pc = "tree" /\ treeEntry = 1 /\ nEntries = 1
  /\ ev.nPads = fMinPads /\ ev.nTimeSlices = fMaxTimeSlices
  /\ HasHistogram
  /\ fSpectraHistograms[PadKey].entries = 1

(***************************************************************************)
\* The no-cuts spectrum that receives the entries of pad q.
NoCutsOfPad(q) ==
  IF <<q[1], q[2]>> \in DOMAIN sectorSpectraHistograms
  THEN sectorSpectraHistograms[<<q[1], q[2]>>].first ELSE NullTH1D

NoCutsOfPadNext(q) ==
  IF <<q[1], q[2]>> \in DOMAIN sectorSpectraHistograms'
  THEN sectorSpectraHistograms'[<<q[1], q[2]>>].first ELSE NullTH1D

InBin(h, b, x) ==
  IF b = 0 THEN x.n < 0
  ELSE IF b = h.nbins + 1 THEN x.n >= h.xmax * x.d
       ELSE /\ (b - 1) * h.xmax * x.d <= h.nbins * x.n
            /\ h.nbins * x.n < b * h.xmax * x.d

C10_OnlyOwnPad ==
  [][pc = "entry" =>
       /\ DOMAIN fSpectraHistograms' = DOMAIN fSpectraHistograms
       /\ \A k \in DOMAIN fSpectraHistograms \ {PadKey} :
            fSpectraHistograms'[k] = fSpectraHistograms[k]]_vars

(***************************************************************************)
\* C11: an entry whose (padrow, pad) the geometry does not have is dropped:
\* no pad histogram changes, no entry is added to the pad-histogram
\* collection and the run does not abort, in base and in update mode.
C11_UnknownPadDropped ==
  [][(pc = "entry" /\ PadKey \notin GeometryPads) =>
       /\ fSpectraHistograms' = fSpectraHistograms
       /\ pc' # "crashed"]_vars

(***************************************************************************)
\* The pad the gain pass has just handled.
lastPad == <<curTPC, curSector, curPadrow, padId - 1>>

BelowThreshold(k) == fSpectraHistograms[k].entries < fMinHistogramEntries

\* C12: a pad whose histogram has fewer entries than minHistogramEntries
\* has no peak record when the peak pass has visited it, and its value in
\* the gain table is the sentinel -1, whatever its histogram holds and
\* whatever the sector average is.
C12_BelowThresholdIsSentinel ==
  /\ pc = "peaks" =>
       \A k \in peaksDone : BelowThreshold(k) => k \notin DOMAIN spectrumADCs
  /\ (JustWrote /\ BelowThreshold(lastPad)) =>
       /\ padADC = Zero
       /\ Last(gainsFile).val = Num(-1)

\* A pad with one entry under a minimum of two was written as -1 in a
\* sector whose average is that of another pad.
C12_Witness ==
  /\ JustWrote
  /\ fMinHistogramEntries = 2
  /\ fSpectraHistograms[lastPad].entries = 1
  /\ <<curTPC, curSector>> \in DOMAIN totalAccumulators
  /\ sectorADC = Num(150)
  /\ Last(gainsFile).val = Num(-1)

(***************************************************************************)
\* The pads of sector j whose entry count reached minHistogramEntries.
Reached(j) ==
  {k \in PadsOfSector(j[1], j[2]) \cap DOMAIN fSpectraHistograms :
     ~BelowThreshold(k)}

RECURSIVE SumOf(_)
SumOf(S) ==
  IF S = {} THEN Zero
  ELSE LET k == CHOOSE x \in S : TRUE
       IN  Add(spectrumADCs[k], SumOf(S \ {k}))

\* C13: after the peak pass the accumulator of a sector holds the peaks of
\* exactly the pads of that sector whose entry count reached
\* minHistogramEntries, each once, for every fit-function value of the
\* configuration.
C13_AccumulatorIffThreshold ==
  (pc = "peaks" /\ peaksDone = DOMAIN fSpectraHistograms) =>
    \A j \in SectorKeys :
      IF Reached(j) = {} THEN j \notin DOMAIN totalAccumulators
      ELSE /\ j \in DOMAIN totalAccumulators
           /\ totalAccumulators[j].n = Cardinality(Reached(j))
           /\ Reached(j) \subseteq DOMAIN spectrumADCs
           /\ totalAccumulators[j].sum = SumOf(Reached(j))

(***************************************************************************)
\* No bin of h whose center is at or above minADC has any content.
NoContentAbove(h, minADC) ==
  \A b \in DOMAIN h.bins :
    ~Lt(GetBinCenter(h, b), Num(minADC)) => h.bins[b] = 0

\* C14: a pad that meets the minimum of entries but has no content in any
\* bin at or above the minimum search charge is excluded like a pad with
\* too few entries: the peak pass stores no peak for it and adds nothing
\* to the accumulator of its sector.
C14_NoPeakNoRecord ==
  [][\A k \in DOMAIN fSpectraHistograms \ peaksDone :
       (/\ pc = "peaks"
        /\ k \in peaksDone'
        /\ fSpectraHistograms[k] # NullTH1D
        /\ NoContentAbove(fSpectraHistograms[k], MinADCPeakSearchOf(k[1], k[2])))
       => /\ k \notin DOMAIN spectrumADCs'
          /\ totalAccumulators' = totalAccumulators]_vars

(***************************************************************************)
curSectorKey == <<curTPC, curSector>>

\* Every contributing pad of the current sector has the located peak P.
AllPeaksAre(P) ==
  /\ Reached(curSectorKey) # {}
  /\ Reached(curSectorKey) \subseteq DOMAIN spectrumADCs
  /\ \A k \in Reached(curSectorKey) : spectrumADCs[k] = P

\* C15: when every contributing pad of a sector has the same non-zero
\* located peak P, the sector average is P and, when not updating, the
\* gain of each of those pads is 1 (and 1 is written when 1 lies between
\* the acceptable bounds); peaks 100, 100, 100 give 1, 1, 1.
C15_EqualPeaksGiveUnitGain ==
  (JustWrote /\ FitsFunction(cfg.fFitFunction)) =>
    \A P \in PeakFitResults :
      AllPeaksAre(P) =>
        /\ sectorADC = P
        /\ (~cfg.updateGains /\ lastPad \in Reached(curSectorKey)) =>
             /\ gain = Num(1)
             /\ Last(fResultTree).fGain = Num(1)
             /\ Acceptable(Num(1)) => Last(gainsFile).val = Num(1)

\* The three pads of sector 1 of TPC 2 have the peak 100 and the gains
\* 1, 1, 1 were written for them.
C15_Witness ==
  /\ pc = "done"
  /\ ~cfg.updateGains
  /\ PadsOfSector(2, 1) \subseteq DOMAIN spectrumADCs
  /\ Cardinality(Reached(<<2, 1>>)) = 3
  /\ \A k \in PadsOfSector(2, 1) : spectrumADCs[k] = Num(100)
  /\ \A i \in 1..3 : /\ GainItems[i].val = Num(1)
                      /\ fResultTree[i].fSectorId = 1
                      /\ fResultTree[i].fGain = Num(1)

(***************************************************************************)
\* C16: a run in which a sector of a listed TPC has no contributing pad
\* does not end with the success exit code.
C16_EmptySectorFails ==
  (/\ pc = "done"
   /\ \E j \in SectorKeys :
        j[1] \in cfg.fTPCIdList /\ j \notin DOMAIN totalAccumulators)
  => exitCode # 0

(***************************************************************************)
RowPad(r) == <<r.fTPCId, r.fSectorId, r.fPadrowId, r.fPadId>>

\* C17: the result tree holds one row for each pad of a listed TPC the
\* gain pass has handled and no pad has two rows; a row carries the ids of
\* its pad, the located peak position (0 when there is none) and the
\* sanitized gain, whether or not the gain is acceptable.
C17_OneAuditRowPerPad ==
  /\ \A i, j \in DOMAIN fResultTree :
       RowPad(fResultTree[i]) = RowPad(fResultTree[j]) => i = j
  /\ \A i \in DOMAIN fResultTree : RowPad(fResultTree[i]) \in ListedPads(cfg)
  /\ Len(fResultTree) = Len(GainItems)
  /\ pc = "done" =>
       {RowPad(fResultTree[i]) : i \in DOMAIN fResultTree} = ListedPads(cfg)
  /\ JustWrote =>
       /\ RowPad(Last(fResultTree)) = lastPad
       /\ Last(fResultTree).fSpectrumADC = spectrumADCs[lastPad]
       /\ Last(fResultTree).fSpectrumADC = padADC
       /\ Last(fResultTree).fGain =
            (IF gain.k = "fin" THEN gain ELSE Zero)
       /\ gain = ComputeGain(cfg.updateGains, lastPrior, sectorADC, padADC)

\* A row with an unacceptable finite gain follows a row with an acceptable
\* one, and the table holds -1 for it.
C17_Witness ==
  /\ JustWrote
  /\ Len(fResultTree) = 2
  /\ Acceptable(fResultTree[1].fGain)
  /\ gain.k = "fin" /\ gain # Zero /\ ~Acceptable(gain)
  /\ Last(fResultTree).fGain = gain
  /\ Last(gainsFile).val = Num(-1)

(***************************************************************************)
\* The charge the claim lets an accepted entry be filled with.
ChargeTimesPreviousGain ==
  IF cfg.updateGains
  THEN Mul(ev.charge, GetPadGain(tree[1], tree[2], ev.padrow, ev.pad))
  ELSE ev.charge

\* C18: an accepted entry is filled into its pad's histogram with
\* charge * previous gain of that pad when updating and with the charge
\* itself otherwise, and the cuts are decided on the unscaled charge in
\* both modes.
C18_ScaledFillUnscaledCuts ==
  [][(pc = "entry" /\ HasHistogram) =>
       /\ PassesCuts(ev) =>
            fSpectraHistograms' =
              [fSpectraHistograms EXCEPT ![PadKey] = Fill(@, ChargeTimesPreviousGain)]
       /\ ~PassesCuts(ev) => fSpectraHistograms' = fSpectraHistograms]_vars

\* Updating: an entry that passes by its charge alone was filled with a
\* rescaled charge that would not pass.
C18_Witness ==
  /\ pc = "tree" /\ treeEntry = 1 /\ nEntries = 1
  /\ cfg.updateGains
  /\ ev.maxADC < fMaxADCCut
  /\ ev.charge = Num(-120)
  /\ HasHistogram
  /\ fSpectraHistograms[PadKey].entries = 1
  /\ fSpectraHistograms[PadKey].bins[0] = 1

(***************************************************************************)
\* C19: the passes do not overlap. A pad histogram changes only in the
\* accumulation pass, before any peak is located; an accumulator changes
\* only in the peak pass, before the first average is read; and an average
\* is read only when the peak pass has visited every pad.
C19_PassesDoNotOverlap ==
  [][/\ fSpectraHistograms' # fSpectraHistograms =>
          /\ pc \in {"create", "entry"}
          /\ peaksDone = {} /\ spectrumADCs = <<>> /\ totalAccumulators = <<>>
     /\ totalAccumulators' # totalAccumulators =>
          /\ pc = "peaks"
          /\ gainsFile = <<>> /\ chamberIt = 0 /\ sectorADC = Zero
     /\ (pc = "sectors" /\ pc' = "padrows") =>
          /\ peaksDone = DOMAIN fSpectraHistograms
          /\ totalAccumulators' = totalAccumulators]_vars

\* The gain pass is at work on histograms that were filled and on an
\* accumulator that was added to.
C19_Witness ==
  /\ pc = "pads"
  /\ curSectorKey \in DOMAIN totalAccumulators
  /\ totalAccumulators[curSectorKey].n = 2
  /\ \E k \in DOMAIN fSpectraHistograms : fSpectraHistograms[k].entries = 1

(***************************************************************************)
\* C20: the provisional peak bin has the maximum content among all bins of
\* the histogram whose center is at or above the minimum search charge.
C20_PeakBinIsMaximum ==
  pc = "peaks" =>
    \A k \in DOMAIN fSpectraHistograms :
      fSpectraHistograms[k] # NullTH1D =>
        LET h == fSpectraHistograms[k]
            m == MinADCPeakSearchOf(k[1], k[2])
        IN  \A b \in 1..h.nbins :
              ~Lt(GetBinCenter(h, b), Num(m)) =>
                h.bins[b] <= PeakSearch(h, m).chargePeakValue

(***************************************************************************)
\* The histogram the peak search has just run on (one pad was visited).
searched == fSpectraHistograms[CHOOSE k \in peaksDone : TRUE]

\* The bins of 1..maxBin, and of maxBin..nbins, whose content is below half
\* the peak content.
BelowHalfLeft == {b \in 1..maxBin : 2 * searched.bins[b] < chargePeakValue}
BelowHalfRight ==
  {b \in maxBin..searched.nbins : 2 * searched.bins[b] < chargePeakValue}

\* C21: the lower bound of the fit is the center of the first bin to the
\* left of the peak bin whose content is below half the peak content, the
\* upper bound is the center of the first such bin to the right of the
\* peak bin, each found without regard to the other.
C21_HalfMaximumWalks ==
  Cardinality(peaksDone) = 1 =>
    /\ BelowHalfLeft # {} =>
         \E b \in BelowHalfLeft :
           /\ \A a \in BelowHalfLeft : a <= b
           /\ gausFit.xmin = GetBinCenter(searched, b)
    /\ BelowHalfRight # {} =>
         \E b \in BelowHalfRight :
           /\ \A a \in BelowHalfRight : b <= a
           /\ gausFit.xmax = GetBinCenter(searched, b)

(***************************************************************************)
\* C24: for a pad histogram on which the Gaussian fit is run, the range of
\* the fit is an interval around the peak: lower bound <= peak position <=
\* upper bound and lower bound < upper bound.
C24_FitRangeWellFormed ==
  (/\ Cardinality(peaksDone) = 1
   /\ cfg.fFitFunction = "Gaussian"
   /\ searched.entries >= fMinHistogramEntries)
  => /\ ~Gt(gausFit.xmin, chargePeak)
     /\ ~Lt(gausFit.xmax, chargePeak)
     /\ Lt(gausFit.xmin, gausFit.xmax)

(***************************************************************************)
\* The entries read so far from the trees of the sector of pad k that name
\* pad k and pass the cuts.
AcceptedOf(k) ==
  {x \in BagToSet(delivered) :
     /\ x[1] = <<k[1], k[2]>>
     /\ x[2].padrow = k[3] /\ x[2].pad = k[4]
     /\ PassesCuts(x[2])}

\* The charge such an entry is filled with.
FilledOf(k, e) ==
  IF cfg.updateGains THEN Mul(e.charge, GetPadGain(k[1], k[2], k[3], k[4]))
  ELSE e.charge

RECURSIVE CountOf(_)
CountOf(S) ==
  IF S = {} THEN 0
  ELSE LET x == CHOOSE y \in S : TRUE
       IN  CopiesIn(x, delivered) + CountOf(S \ {x})

\* C22: the pad histograms are a function of the multiset of the entries
\* read, not of their order: after any number of entries, in any order
\* and over any trees, bin b of the histogram of a pad holds the number of
\* accepted entries of that pad whose filled charge lies in bin b, in base
\* and in update mode.
C22_OrderIndependent ==
  pc \in {"files", "tree", "peaks"} =>
    \A k \in GeometryPads \cap DOMAIN fSpectraHistograms :
      LET h == fSpectraHistograms[k]
      IN  /\ h.entries = CountOf(AcceptedOf(k))
          /\ \A b \in DOMAIN h.bins :
               h.bins[b] =
                 CountOf({x \in AcceptedOf(k) : InBin(h, b, FilledOf(k, x[2]))})

\* Two different entries were read and both are in the histogram of their
\* pad, in two bins.
C22_Witness ==
  /\ pc = "files"
  /\ BagCardinality(delivered) = 2
  /\ Cardinality(BagToSet(delivered)) = 2
  /\ \E k \in DOMAIN fSpectraHistograms :
       /\ fSpectraHistograms[k].entries = 2
       /\ \E a, b \in 1..fHistogramBins :
            a # b /\ fSpectraHistograms[k].bins[a] = 1 /\ fSpectraHistograms[k].bins[b] = 1

(***************************************************************************)
\* The sector being written belongs to a listed TPC and no pad added to
\* its accumulator.
EmptySector ==
  curTPC \in cfg.fTPCIdList /\ curSectorKey \notin DOMAIN totalAccumulators

C25_ParserTerminates == <>(parsePc \in {"returned", "aborted"})
====
